---- MODULE Spec2Model ----
(***************************************************************************)
(* Model of src/create_training_samples/                                   *)
(* create_topic_vector_training_samples.py: the construction of            *)
(* contrastive (positive, negative) training pairs for one topic.          *)
(*                                                                         *)
(* Spec is one call of create_topic_vector_training_samples, with          *)
(* create_training_pairs taken step by step.  SpecAll is the loop of       *)
(* create_all_topic_vector_training_samples, one whole call per step.      *)
(*                                                                         *)
(* A topic pool (the dict all_samples) is a sequence of string sequences:  *)
(* the pool's iteration order is the order of the sequence and the topic   *)
(* id of an entry is its index.  The code only ever compares topic ids     *)
(* for equality with tid_positive, so nothing else about the keys matters. *)
(***************************************************************************)
EXTENDS Integers, Sequences, FiniteSets, TLC

\* ---------------------------------------------------------------- bounds
MaxTopics == 3      \* topics in a pool
MaxLen    == 2      \* strings in one topic's sequence
MaxPool   == 3      \* strings in a whole pool
MaxCount  == 6      \* largest requested num_samples
NegCounts == 2      \* num_samples ranges down to -NegCounts

Strs == {"a", "b"}

\* ------------------------------------------------------- input universes
RECURSIVE SeqsUpTo(_)
SeqsUpTo(n) ==
    IF n = 0 THEN {<<>>}
    ELSE LET shorter == SeqsUpTo(n - 1)
         IN  shorter \cup {Append(s, x) : s \in {t \in shorter : Len(t) = n - 1}, x \in Strs}

RECURSIVE SumLen(_, _)
SumLen(pool, n) == IF n = 0 THEN 0 ELSE Len(pool[n]) + SumLen(pool, n - 1)

BoundedPools ==
    {p \in UNION {[1..n -> SeqsUpTo(MaxLen)] : n \in 1..MaxTopics} :
        SumLen(p, Len(p)) <= MaxPool}

\* the two pools written out in the specification's testable properties
InterleaveExamplePool ==
    << <<"P0">>, <<"A0", "A1", "A2">>, <<"B0">>, <<"C0", "C1">> >>
EndToEndPool == << <<"p1", "p2">>, <<"n1">>, <<"n2", "n3">> >>

\* each is used with its topic 1 as the positive topic
ExamplePools == {InterleaveExamplePool, EndToEndPool}

\* 100 is the oversized count of the specification's end-to-end example
Counts == ((-NegCounts)..MaxCount) \cup {100}

\* ------------------------------------------------------------ the state
VARIABLES
    all_samples,            \* Dict[int, List[str]]: the topic pool
    tid_positive,           \* the positive topic id
    num_samples,            \* the requested number of pairs
    positive_samples,       \* List[str] argument of create_training_pairs
    negative_lists,         \* local of create_training_pairs
    interleaved_negatives,  \* local of create_training_pairs
    all_pairs,              \* local of create_training_pairs
    sample_indices,         \* positions of all_pairs that random.sample drew
    result,                 \* the returned list of pairs
    raised,                 \* "none" or the exception that left the call
    pc,                     \* position in the call
    \* create_topic_vector_training_samples, lines 46-68
    topic_representation_type,  \* str argument
    pairing_type,               \* str argument
    opc,                        \* position in create_topic_vector_training_samples
    loader_calls,               \* calls of load_topic_representations so far
    persister_calls,            \* arguments of the calls of save_topic_vector_training_samples
    returned_samples,           \* <<>> or <<the list line 68 returned>>
    call_error,                 \* "none" or the exception that left the function
    \* create_all_topic_vector_training_samples, lines 35-44
    config,          \* ExperimentConfig: the three fields the loop reads
    storage,         \* what the loader returns for each representation type
    lpc,             \* position in the loop
    loop_kind,       \* index of the outer loop in TOPIC_REPRESENTATION_TYPES
    loop_tid,        \* index of the inner loop in TOPIC_IDS
    invocations,     \* arguments of the calls made on lines 43-44, in order
    stored,          \* what the persister has stored, in order
    abort_error      \* "none" or the exception that left the loop

pairVars == <<all_samples, tid_positive, num_samples, positive_samples,
              negative_lists, interleaved_negatives, all_pairs, sample_indices,
              result, raised, pc>>
callVars == <<topic_representation_type, pairing_type, opc, loader_calls,
              persister_calls, returned_samples, call_error>>
loopVars == <<config, storage, lpc, loop_kind, loop_tid, invocations, stored,
              abort_error>>
vars == <<pairVars, callVars, loopVars>>

NoPositiveError  == "ValueError: No positive samples found"
NoNegativesError == "ValueError: No non-empty negative sample lists found"

Range(s) == {s[i] : i \in 1..Len(s)}

\* src.utils is outside the source tree; its four functions follow the
\* specification: the validators accept the members of a fixed enumeration
\* and raise otherwise, the loader and the persister may fail.
RecognizedRepresentationTypes == {"words", "phrases", "descriptions", "summaries"}
RecognizedPairingTypes == {"against_random_topic_representation", "against_random_string"}
validate_topic_representation_type(t) == t \in RecognizedRepresentationTypes
validate_pairing_type(t) == t \in RecognizedPairingTypes
ValidationError == "ValidationError"
LoaderError == "LoaderError"
PersistError == "PersistError"

\* the argument strings the calls are made with
RepresentationTypeInputs == {"words", "sentences"}
PairingTypeInputs == {"against_random_topic_representation", "against_nothing"}

\* ------------------------------------------------------ pure computations
\* variant: the filter forgets to leave the positive topic out
RECURSIVE CollectAllLists(_, _, _)
CollectAllLists(samples, tid_pos, t) ==
    IF t > Len(samples) THEN <<>>
    ELSE LET rest == CollectAllLists(samples, tid_pos, t + 1)
         IN  IF samples[t] # <<>> THEN <<samples[t]>> \o rest ELSE rest

\* lines 93-96: the non-empty sequences of the topics other than tid_positive,
\* in the iteration order of the dict
RECURSIVE CollectNegativeLists(_, _, _)
CollectNegativeLists(samples, tid_pos, t) ==
    IF t > Len(samples) THEN <<>>
    ELSE LET rest == CollectNegativeLists(samples, tid_pos, t + 1)
         IN  IF t # tid_pos /\ samples[t] # <<>>
             THEN <<samples[t]>> \o rest
             ELSE rest

\* line 111
RECURSIVE MaxLength(_, _)
MaxLength(lists, j) ==
    IF j = 0 THEN 0
    ELSE LET m == MaxLength(lists, j - 1)
         IN  IF Len(lists[j]) > m THEN Len(lists[j]) ELSE m

\* lines 115-117: the inner loop over negative_lists at round i
RECURSIVE InnerLoop(_, _, _, _)
InnerLoop(lists, i, j, acc) ==
    IF j > Len(lists) THEN acc
    ELSE InnerLoop(lists, i, j + 1,
                   IF i <= Len(lists[j]) THEN Append(acc, lists[j][i]) ELSE acc)

\* lines 114-117: the outer loop over the rounds i
RECURSIVE OuterLoop(_, _, _, _)
OuterLoop(lists, i, max_len, acc) ==
    IF i > max_len THEN acc
    ELSE OuterLoop(lists, i + 1, max_len, InnerLoop(lists, i, 1, acc))

\* variant: the negatives concatenated topic after topic instead of interleaved
RECURSIVE ConcatFrom(_, _)
ConcatFrom(lists, j) ==
    IF j > Len(lists) THEN <<>> ELSE lists[j] \o ConcatFrom(lists, j + 1)
InterleaveConcatenated(lists) == ConcatFrom(lists, 1)

\* lines 109-117
Interleave(lists) == OuterLoop(lists, 1, MaxLength(lists, Len(lists)), <<>>)

\* variant: positives zipped with negatives instead of crossed
CrossProductZipped(pos, negs) ==
    [k \in 1..(IF Len(pos) < Len(negs) THEN Len(pos) ELSE Len(negs)) |->
        <<pos[k], negs[k]>>]

\* lines 120-123: the cross product, positive-major
CrossProduct(pos, negs) ==
    [k \in 1..(Len(pos) * Len(negs)) |->
        <<pos[((k - 1) \div Len(negs)) + 1], negs[((k - 1) % Len(negs)) + 1]>>]

\* variant: a sample that stops one draw short
RECURSIVE DistinctPositionsShort(_, _)
DistinctPositionsShort(n, k) ==
    IF k < 0 \/ k > n THEN {}
    ELSE IF k <= 1 THEN {<<>>}
    ELSE UNION {{Append(s, x) : x \in (1..n) \ Range(s)} :
                    s \in DistinctPositionsShort(n, k - 1)}

\* variant: a sample drawn with replacement (random.choices)
RECURSIVE PositionsWithReplacement(_, _)
PositionsWithReplacement(n, k) ==
    IF k < 0 \/ k > n THEN {}
    ELSE IF k = 0 THEN {<<>>}
    ELSE {Append(s, x) : s \in PositionsWithReplacement(n, k - 1), x \in 1..n}

\* variant: the first k candidates taken instead of a random sample
FirstPositions(n, k) ==
    IF k < 0 \/ k > n THEN {} ELSE {[i \in 1..k |-> i]}

\* random.sample(population, k): the sequences of k pairwise distinct
\* positions of a population of n elements.  For k < 0 or k > n random.sample
\* raises and yields no sequence; line 105 and line 126 keep the code from
\* calling it so.
RECURSIVE DistinctPositions(_, _)
DistinctPositions(n, k) ==
    IF k < 0 \/ k > n THEN {}
    ELSE IF k = 0 THEN {<<>>}
    ELSE UNION {{Append(s, x) : x \in (1..n) \ Range(s)} :
                    s \in DistinctPositions(n, k - 1)}

\* variant: the count is checked before the pool
ValidationCountFirst(pos, negs, k) ==
    IF k < 0 THEN "negative_count"
    ELSE IF pos = <<>> THEN "no_positive"
    ELSE IF negs = <<>> THEN "no_negatives"
    ELSE "ok"

\* variant: the count is checked before the negatives
ValidationCountSecond(pos, negs, k) ==
    IF pos = <<>> THEN "no_positive"
    ELSE IF k < 0 THEN "negative_count"
    ELSE IF negs = <<>> THEN "no_negatives"
    ELSE "ok"

\* variant: the check of the count is missing
ValidationWithoutCount(pos, negs, k) ==
    IF pos = <<>> THEN "no_positive"
    ELSE IF negs = <<>> THEN "no_negatives"
    ELSE "ok"

\* variant: the negatives are checked before the positives
ValidationNegativesFirst(pos, negs, k) ==
    IF negs = <<>> THEN "no_negatives"
    ELSE IF pos = <<>> THEN "no_positive"
    ELSE IF k < 0 THEN "negative_count"
    ELSE "ok"

\* lines 99-107: the input checks, in the order the code evaluates them
ValidationOutcome(pos, negs, k) ==
    IF pos = <<>> THEN "no_positive"
    ELSE IF negs = <<>> THEN "no_negatives"
    ELSE IF k < 0 THEN "negative_count"
    ELSE "ok"

\* variant: the comparison inverted
TakesSampleInverted(k, total) == k >= total

\* line 126: the test that chooses random.sample over returning all_pairs
TakesSample(k, total) == k <= total

\* ------------------------------------------------------------------ Init
Init ==
    /\ \/ all_samples \in BoundedPools /\ tid_positive \in 1..Len(all_samples)
       \/ all_samples \in ExamplePools /\ tid_positive = 1
    /\ num_samples \in Counts
    /\ positive_samples = <<>>
    /\ negative_lists = <<>>
    /\ interleaved_negatives = <<>>
    /\ all_pairs = <<>>
    /\ sample_indices = <<>>
    /\ result = <<>>
    /\ raised = "none"
    /\ pc = "call"
    /\ topic_representation_type \in RepresentationTypeInputs
    /\ pairing_type \in PairingTypeInputs
    /\ opc = "start"
    /\ loader_calls = 0
    /\ persister_calls = <<>>
    /\ returned_samples = <<>>
    /\ call_error = "none"
    /\ config = [TOPIC_REPRESENTATION_TYPES |-> <<>>,
                 TOPIC_REPRESENTATION_TYPE_NUM_SAMPLES |-> <<>>,
                 TOPIC_IDS |-> <<>>]
    /\ storage = <<>>
    /\ lpc = "single_call"
    /\ loop_kind = 0
    /\ loop_tid = 0
    /\ invocations = <<>>
    /\ stored = <<>>
    /\ abort_error = "none"

\* --------------------------------------------------------------- actions
\* line 59, the type is recognized
RepresentationTypeAccepted ==
    /\ opc = "start"
    /\ validate_topic_representation_type(topic_representation_type)
    /\ opc' = "type_ok"
    /\ UNCHANGED <<pairVars, loopVars, topic_representation_type, pairing_type, loader_calls,
                   persister_calls, returned_samples, call_error>>

\* line 59, the validator raises
RepresentationTypeRejected ==
    /\ opc = "start"
    /\ ~validate_topic_representation_type(topic_representation_type)
    /\ call_error' = ValidationError
    /\ opc' = "failed"
    /\ UNCHANGED <<pairVars, loopVars, topic_representation_type, pairing_type, loader_calls,
                   persister_calls, returned_samples>>

\* line 60, the pairing is recognized
PairingTypeAccepted ==
    /\ opc = "type_ok"
    /\ validate_pairing_type(pairing_type)
    /\ opc' = "pairing_ok"
    /\ UNCHANGED <<pairVars, loopVars, topic_representation_type, pairing_type, loader_calls,
                   persister_calls, returned_samples, call_error>>

\* line 60, the validator raises
PairingTypeRejected ==
    /\ opc = "type_ok"
    /\ ~validate_pairing_type(pairing_type)
    /\ call_error' = ValidationError
    /\ opc' = "failed"
    /\ UNCHANGED <<pairVars, loopVars, topic_representation_type, pairing_type, loader_calls,
                   persister_calls, returned_samples>>

\* variant: the pool is loaded first, the arguments are not looked at
LoadBeforeValidation ==
    /\ opc = "start"
    /\ loader_calls' = loader_calls + 1
    /\ opc' = "loaded"
    /\ UNCHANGED <<pairVars, loopVars, topic_representation_type, pairing_type,
                   persister_calls, returned_samples, call_error>>

\* line 62: the loader returns the pool all_samples
LoadTopicRepresentations ==
    /\ opc = "pairing_ok"
    /\ loader_calls' = loader_calls + 1
    /\ opc' = "loaded"
    /\ UNCHANGED <<pairVars, loopVars, topic_representation_type, pairing_type,
                   persister_calls, returned_samples, call_error>>

\* line 62: the loader raises
LoadFails ==
    /\ opc = "pairing_ok"
    /\ loader_calls' = loader_calls + 1
    /\ call_error' = LoaderError
    /\ opc' = "failed"
    /\ UNCHANGED <<pairVars, loopVars, topic_representation_type, pairing_type,
                   persister_calls, returned_samples>>

\* variant: the pairs are persisted in a finally block
PropagateErrorAfterSaving ==
    /\ opc = "loaded"
    /\ pc = "raised"
    /\ persister_calls' = Append(persister_calls,
            [pairs |-> result, kind |-> topic_representation_type,
             pairing |-> pairing_type, tid |-> tid_positive])
    /\ call_error' = raised
    /\ opc' = "failed"
    /\ UNCHANGED <<pairVars, loopVars, topic_representation_type, pairing_type, loader_calls,
                   returned_samples>>

\* lines 64-65: an exception of create_training_pairs leaves the function
PropagateError ==
    /\ opc = "loaded"
    /\ pc = "raised"
    /\ call_error' = raised
    /\ opc' = "failed"
    /\ UNCHANGED <<pairVars, loopVars, topic_representation_type, pairing_type, loader_calls,
                   persister_calls, returned_samples>>

\* lines 67-68: the pairs are persisted and returned
SaveAndReturn ==
    /\ opc = "loaded"
    /\ pc = "returned"
    /\ persister_calls' = Append(persister_calls,
            [pairs |-> result, kind |-> topic_representation_type,
             pairing |-> pairing_type, tid |-> tid_positive])
    /\ returned_samples' = <<result>>
    /\ opc' = "done"
    /\ UNCHANGED <<pairVars, loopVars, topic_representation_type, pairing_type, loader_calls,
                   call_error>>

\* line 67: the persister raises
SaveFails ==
    /\ opc = "loaded"
    /\ pc = "returned"
    /\ persister_calls' = Append(persister_calls,
            [pairs |-> result, kind |-> topic_representation_type,
             pairing |-> pairing_type, tid |-> tid_positive])
    /\ call_error' = PersistError
    /\ opc' = "failed"
    /\ UNCHANGED <<pairVars, loopVars, topic_representation_type, pairing_type, loader_calls,
                   returned_samples>>

\* variant: the negative lists are consumed with pop(0) while interleaving
InterleaveNegativesByPopping ==
    /\ pc = "validate"
    /\ ValidationOutcome(positive_samples, negative_lists, num_samples) = "ok"
    /\ interleaved_negatives' = Interleave(negative_lists)
    /\ negative_lists' = [j \in 1..Len(negative_lists) |-> <<>>]
    /\ all_samples' = [t \in 1..Len(all_samples) |->
                          IF t = tid_positive THEN all_samples[t] ELSE <<>>]
    /\ pc' = "pairs"
    /\ UNCHANGED <<tid_positive, num_samples, positive_samples,
                   all_pairs, sample_indices, result, raised, callVars, loopVars>>

\* line 64: create_training_pairs(topic_representations[tid], ...) is entered
\* and lines 93-96 build negative_lists
CollectNegatives ==
    /\ opc = "loaded"
    /\ pc = "call"
    /\ positive_samples' = all_samples[tid_positive]
    /\ negative_lists' = CollectNegativeLists(all_samples, tid_positive, 1)
    /\ pc' = "validate"
    /\ UNCHANGED <<all_samples, tid_positive, num_samples, interleaved_negatives,
                   all_pairs, sample_indices, result, raised, callVars, loopVars>>

\* lines 99-101
RaiseNoPositive ==
    /\ pc = "validate"
    /\ ValidationOutcome(positive_samples, negative_lists, num_samples) = "no_positive"
    /\ raised' = NoPositiveError
    /\ pc' = "raised"
    /\ UNCHANGED <<all_samples, tid_positive, num_samples, positive_samples,
                   negative_lists, interleaved_negatives, all_pairs,
                   sample_indices, result, callVars, loopVars>>

\* lines 102-104
RaiseNoNegatives ==
    /\ pc = "validate"
    /\ ValidationOutcome(positive_samples, negative_lists, num_samples) = "no_negatives"
    /\ raised' = NoNegativesError
    /\ pc' = "raised"
    /\ UNCHANGED <<all_samples, tid_positive, num_samples, positive_samples,
                   negative_lists, interleaved_negatives, all_pairs,
                   sample_indices, result, callVars, loopVars>>

\* lines 105-107
ReturnEmptyOnNegativeCount ==
    /\ pc = "validate"
    /\ ValidationOutcome(positive_samples, negative_lists, num_samples) = "negative_count"
    /\ result' = <<>>
    /\ pc' = "returned"
    /\ UNCHANGED <<all_samples, tid_positive, num_samples, positive_samples,
                   negative_lists, interleaved_negatives, all_pairs,
                   sample_indices, raised, callVars, loopVars>>

\* lines 109-117
InterleaveNegatives ==
    /\ pc = "validate"
    /\ ValidationOutcome(positive_samples, negative_lists, num_samples) = "ok"
    /\ interleaved_negatives' = Interleave(negative_lists)
    /\ pc' = "pairs"
    /\ UNCHANGED <<all_samples, tid_positive, num_samples, positive_samples,
                   negative_lists, all_pairs, sample_indices, result, raised, callVars, loopVars>>

\* lines 120-125
GenerateAllPairs ==
    /\ pc = "pairs"
    /\ all_pairs' = CrossProduct(positive_samples, interleaved_negatives)
    /\ pc' = "select"
    /\ UNCHANGED <<all_samples, tid_positive, num_samples, positive_samples,
                   negative_lists, interleaved_negatives, sample_indices,
                   result, raised, callVars, loopVars>>

\* lines 126-127: return random.sample(all_pairs, num_samples)
Subsample ==
    /\ pc = "select"
    /\ TakesSample(num_samples, Len(all_pairs))
    /\ \E drawn \in DistinctPositions(Len(all_pairs), num_samples) :
          /\ sample_indices' = drawn
          /\ result' = [i \in 1..Len(drawn) |-> all_pairs[drawn[i]]]
    /\ pc' = "returned"
    /\ UNCHANGED <<all_samples, tid_positive, num_samples, positive_samples,
                   negative_lists, interleaved_negatives, all_pairs, raised, callVars, loopVars>>

\* lines 128-131: return all_pairs
ReturnAll ==
    /\ pc = "select"
    /\ ~TakesSample(num_samples, Len(all_pairs))
    /\ sample_indices' = [i \in 1..Len(all_pairs) |-> i]
    /\ result' = all_pairs
    /\ pc' = "returned"
    /\ UNCHANGED <<all_samples, tid_positive, num_samples, positive_samples,
                   negative_lists, interleaved_negatives, all_pairs, raised, callVars, loopVars>>

Next ==
    \/ RepresentationTypeAccepted
    \/ RepresentationTypeRejected
    \/ PairingTypeAccepted
    \/ PairingTypeRejected
    \/ LoadTopicRepresentations
    \/ LoadFails
    \/ PropagateError
    \/ SaveAndReturn
    \/ SaveFails
    \/ CollectNegatives
    \/ RaiseNoPositive
    \/ RaiseNoNegatives
    \/ ReturnEmptyOnNegativeCount
    \/ InterleaveNegatives
    \/ GenerateAllPairs
    \/ Subsample
    \/ ReturnAll

Spec == Init /\ [][Next]_vars

TypeOK ==
    /\ pc \in {"call", "validate", "pairs", "select", "returned", "raised"}
    /\ raised \in {"none", NoPositiveError, NoNegativesError}
    /\ (pc = "raised") <=> (raised # "none")
    /\ opc \in {"start", "type_ok", "pairing_ok", "loaded", "done", "failed"}
    /\ loader_calls \in 0..1
    /\ call_error \in {"none", ValidationError, LoaderError, PersistError,
                        NoPositiveError, NoNegativesError}
    /\ (opc = "failed") <=> (call_error # "none")
    /\ pc # "call" => opc \in {"loaded", "done", "failed"}

\* ======================================================================
\* create_all_topic_vector_training_samples, lines 35-44: the loop over the
\* configured representation types and topic ids.  One step of the loop is
\* one whole call of create_topic_vector_training_samples.
\* ======================================================================
\* line 44: the pairing type every call of the loop is made with
LoopPairingType == "against_random_topic_representation"

\* line 64: topic_representations[tid] for a tid the pool does not have
KeyError == "KeyError"

\* the configurations and the stored pools the loop is run on
BatchKinds == {"words", "phrases", "sentences"}
BatchTopicIds == {1, 2, 3}
BatchCounts == {-1, 2}
BatchPools == { << <<"a">>, <<"b", "a">> >>, << <<"a">>, <<>> >> }
DistinctSeqs(S) ==
    {<<>>} \cup {<<x>> : x \in S}
    \cup {q \in {<<x, y>> : x \in S, y \in S} : q[1] # q[2]}

\* lines 70-131 as one step: the lists a call of create_training_pairs can
\* return
create_training_pairs_returns(pool, tid, k) ==
    LET pos == pool[tid]
        negs == CollectNegativeLists(pool, tid, 1)
        outcome == ValidationOutcome(pos, negs, k)
        pairs == CrossProduct(pos, Interleave(negs))
    IN  IF outcome = "negative_count" THEN {<<>>}
        ELSE IF outcome # "ok" THEN {}
        ELSE IF TakesSample(k, Len(pairs))
             THEN {[i \in 1..Len(d) |-> pairs[d[i]]] :
                       d \in DistinctPositions(Len(pairs), k)}
             ELSE {pairs}

\* lines 58-68 as one step: the exceptions a call of
\* create_topic_vector_training_samples can end with
call_errors(kind, k, tid) ==
    IF ~(validate_topic_representation_type(kind) /\ validate_pairing_type(LoopPairingType))
    THEN {ValidationError}
    ELSE {LoaderError} \cup
         (IF tid \notin 1..Len(storage[kind]) THEN {KeyError}
          ELSE LET pool == storage[kind]
                   outcome == ValidationOutcome(pool[tid],
                                  CollectNegativeLists(pool, tid, 1), k)
               IN  IF outcome = "no_positive" THEN {NoPositiveError}
                   ELSE IF outcome = "no_negatives" THEN {NoNegativesError}
                   ELSE {PersistError})

\* lines 58-68 as one step: the lists a call can persist and return
call_returns(kind, k, tid) ==
    IF ~(validate_topic_representation_type(kind) /\ validate_pairing_type(LoopPairingType))
    THEN {}
    ELSE IF tid \notin 1..Len(storage[kind]) THEN {}
    ELSE create_training_pairs_returns(storage[kind], tid, k)

InitAll ==
    /\ all_samples = <<>>
    /\ tid_positive = 0
    /\ num_samples = 0
    /\ positive_samples = <<>>
    /\ negative_lists = <<>>
    /\ interleaved_negatives = <<>>
    /\ all_pairs = <<>>
    /\ sample_indices = <<>>
    /\ result = <<>>
    /\ raised = "none"
    /\ pc = "call"
    /\ topic_representation_type = ""
    /\ pairing_type = ""
    /\ opc = "loop"
    /\ loader_calls = 0
    /\ persister_calls = <<>>
    /\ returned_samples = <<>>
    /\ call_error = "none"
    /\ \E kinds \in DistinctSeqs(BatchKinds), tids \in DistinctSeqs(BatchTopicIds),
          counts \in [BatchKinds -> BatchCounts] :
          config = [TOPIC_REPRESENTATION_TYPES |-> kinds,
                    TOPIC_REPRESENTATION_TYPE_NUM_SAMPLES |-> counts,
                    TOPIC_IDS |-> tids]
    /\ storage \in [RecognizedRepresentationTypes \cap BatchKinds -> BatchPools]
    /\ lpc = "outer"
    /\ loop_kind = 0
    /\ loop_tid = 0
    /\ invocations = <<>>
    /\ stored = <<>>
    /\ abort_error = "none"

\* lines 40-41: the outer loop takes the next representation type
EnterKind ==
    /\ lpc = "outer"
    /\ loop_kind < Len(config.TOPIC_REPRESENTATION_TYPES)
    /\ loop_kind' = loop_kind + 1
    /\ loop_tid' = 0
    /\ lpc' = "inner"
    /\ UNCHANGED <<pairVars, callVars, config, storage, invocations, stored,
                   abort_error>>

\* line 40: the outer loop is exhausted, the function returns
FinishLoop ==
    /\ lpc = "outer"
    /\ loop_kind >= Len(config.TOPIC_REPRESENTATION_TYPES)
    /\ lpc' = "finished"
    /\ UNCHANGED <<pairVars, callVars, config, storage, loop_kind, loop_tid,
                   invocations, stored, abort_error>>

\* line 42: the inner loop is exhausted
LeaveKind ==
    /\ lpc = "inner"
    /\ loop_tid >= Len(config.TOPIC_IDS)
    /\ lpc' = "outer"
    /\ UNCHANGED <<pairVars, callVars, config, storage, loop_kind, loop_tid,
                   invocations, stored, abort_error>>

\* the arguments of the call on lines 43-44 at the current loop position
CurrentCall ==
    LET kind == config.TOPIC_REPRESENTATION_TYPES[loop_kind]
    IN  [kind |-> kind,
         num_samples |-> config.TOPIC_REPRESENTATION_TYPE_NUM_SAMPLES[kind],
         tid |-> config.TOPIC_IDS[loop_tid + 1],
         pairing |-> LoopPairingType]

\* lines 42-44: the call returns, its pairs are persisted
InvokeReturns ==
    /\ lpc = "inner"
    /\ loop_tid < Len(config.TOPIC_IDS)
    /\ \E pairs \in call_returns(CurrentCall.kind, CurrentCall.num_samples, CurrentCall.tid) :
          stored' = Append(stored, [pairs |-> pairs, kind |-> CurrentCall.kind,
                                    pairing |-> CurrentCall.pairing,
                                    tid |-> CurrentCall.tid])
    /\ invocations' = Append(invocations, CurrentCall)
    /\ loop_tid' = loop_tid + 1
    /\ UNCHANGED <<pairVars, callVars, config, storage, lpc, loop_kind, abort_error>>

\* variant: the exception of a call is swallowed and the loop goes on
InvokeRaisesAndContinues ==
    /\ lpc = "inner"
    /\ loop_tid < Len(config.TOPIC_IDS)
    /\ call_errors(CurrentCall.kind, CurrentCall.num_samples, CurrentCall.tid) # {}
    /\ invocations' = Append(invocations, CurrentCall)
    /\ loop_tid' = loop_tid + 1
    /\ UNCHANGED <<pairVars, callVars, config, storage, lpc, loop_kind, stored,
                   abort_error>>

\* lines 42-44: the call raises, the exception leaves the loop
InvokeRaises ==
    /\ lpc = "inner"
    /\ loop_tid < Len(config.TOPIC_IDS)
    /\ \E err \in call_errors(CurrentCall.kind, CurrentCall.num_samples, CurrentCall.tid) :
          abort_error' = err
    /\ invocations' = Append(invocations, CurrentCall)
    /\ lpc' = "aborted"
    /\ UNCHANGED <<pairVars, callVars, config, storage, loop_kind, loop_tid, stored>>

NextAll ==
    \/ EnterKind
    \/ FinishLoop
    \/ LeaveKind
    \/ InvokeReturns
    \/ InvokeRaises

SpecAll == InitAll /\ [][NextAll]_vars

\* ======================================================================
\* What the specification says, stated over the inputs of the call
\* ======================================================================
PositiveSeq == all_samples[tid_positive]
OtherTopics == {t \in 1..Len(all_samples) : t # tid_positive}
Contributing == {t \in OtherTopics : all_samples[t] # <<>>}
ValidPool == PositiveSeq # <<>> /\ Contributing # {}

\* a slot <<i, t>> is position i of the sequence of contributing topic t
NegSlots == UNION {{<<i, t>> : i \in 1..Len(all_samples[t])} : t \in Contributing}
SlotText(s) == all_samples[s[2]][s[1]]
\* round-robin rank of a slot: rounds first, pool order within a round
SlotRank(s) ==
    Cardinality({r \in NegSlots : r[1] < s[1] \/ (r[1] = s[1] /\ r[2] < s[2])}) + 1

NumNegatives == Cardinality(NegSlots)
Total == Len(PositiveSeq) * NumNegatives

\* the candidate pairs: positions of the cross product
Candidates == {<<i, s>> : i \in 1..Len(PositiveSeq), s \in NegSlots}
CandidateText(c) == <<PositiveSeq[c[1]], SlotText(c[2])>>
Occurrences(seq, v) == Cardinality({k \in 1..Len(seq) : seq[k] = v})
SameBagAsCandidates(seq) ==
    /\ Len(seq) = Cardinality(Candidates)
    /\ \A c \in Candidates :
          Occurrences(seq, CandidateText(c)) =
              Cardinality({d \in Candidates : CandidateText(d) = CandidateText(c)})
IsPermutation(idx, n) == Len(idx) = n /\ Range(idx) = 1..n

Returned == pc = "returned"
Raised == pc = "raised"
InterleavedBuilt == pc \in {"pairs", "select"} \/ (Returned /\ num_samples >= 0)

\* ----------------------------------------------------------------- C1
\* C1: for a pool with a non-empty positive sequence and a non-empty other
\* topic, and 0 <= num_samples <= total, the returned list has exactly
\* num_samples entries.
C1_BoundRespected ==
    (Returned /\ ValidPool /\ 0 <= num_samples /\ num_samples <= Total)
        => Len(result) = num_samples

C1_Witness ==
    /\ Returned /\ ValidPool
    /\ 0 < num_samples /\ num_samples < Total
    /\ Len(result) = num_samples

\* ----------------------------------------------------------------- C2
\* C2: for a valid pool and num_samples > total the call raises nothing and
\* returns a list of length total holding every candidate pair exactly once.
C2_Oversubscription ==
    (ValidPool /\ num_samples > Total)
        => /\ raised = "none"
           /\ Returned => /\ Len(result) = Total
                          /\ SameBagAsCandidates(result)
                          /\ IsPermutation(sample_indices, Total)

C2_Witness ==
    /\ Returned /\ ValidPool
    /\ num_samples > Total /\ Total >= 4
    /\ Len(result) = Total

\* ----------------------------------------------------------------- C3
\* C3 as stated: every returned pair (p, n) has p in the positive topic's
\* sequence, n in the sequence of another topic, and n never a member of
\* the positive topic's own sequence.
C3_AsStated ==
    Returned =>
        \A k \in 1..Len(result) :
            /\ result[k][1] \in Range(PositiveSeq)
            /\ \E t \in OtherTopics : result[k][2] \in Range(all_samples[t])
            /\ result[k][2] \notin Range(PositiveSeq)

\* C3 amended: every returned pair (p, n) has p in the positive topic's
\* sequence and n in the sequence of another topic; n is outside the
\* positive topic's sequence whenever no string of the positive sequence
\* also occurs in another topic's sequence.
SharesNoString ==
    \A t \in OtherTopics : Range(all_samples[t]) \cap Range(PositiveSeq) = {}

C3_TopicIsolation ==
    Returned =>
        \A k \in 1..Len(result) :
            /\ result[k][1] \in Range(PositiveSeq)
            /\ \E t \in OtherTopics : result[k][2] \in Range(all_samples[t])
            /\ SharesNoString => result[k][2] \notin Range(PositiveSeq)

C3_Witness ==
    /\ Returned /\ Len(result) >= 2
    /\ ~SharesNoString
    /\ \E k \in 1..Len(result) : result[k][2] \in Range(PositiveSeq)

\* ----------------------------------------------------------------- C4
\* C4: the interleaved negative sequence is the round-robin merge by
\* position of the non-empty non-positive topic sequences in pool order:
\* every element of every contributing sequence once, at its round-robin
\* rank; for A of 3 items, B of 1, C of 2 it is A0, B0, C0, A1, C1, A2.
C4_RoundRobin ==
    /\ InterleavedBuilt =>
          /\ Len(interleaved_negatives) = NumNegatives
          /\ \A s \in NegSlots : interleaved_negatives[SlotRank(s)] = SlotText(s)
    /\ (InterleavedBuilt /\ all_samples = InterleaveExamplePool /\ tid_positive = 1)
          => interleaved_negatives = <<"A0", "B0", "C0", "A1", "C1", "A2">>

C4_Witness ==
    /\ pc = "pairs"
    /\ all_samples = InterleaveExamplePool /\ tid_positive = 1
    /\ interleaved_negatives = <<"A0", "B0", "C0", "A1", "C1", "A2">>

\* ----------------------------------------------------------------- C5
\* C5: with num_samples equal to total_possible_pairs the call returns
\* exactly that many pairs, each a valid (positive, negative) combination,
\* every candidate position of the cross product exactly once.
C5_Exhaustive ==
    (Returned /\ ValidPool /\ num_samples = Total)
        => /\ Len(result) = Total
           /\ Total = Len(all_pairs)
           /\ \A k \in 1..Len(result) :
                 \E c \in Candidates : result[k] = CandidateText(c)
           /\ IsPermutation(sample_indices, Total)
           /\ SameBagAsCandidates(result)

C5_Witness ==
    /\ Returned /\ ValidPool
    /\ num_samples = Total /\ Total >= 3
    /\ result # all_pairs
    /\ SameBagAsCandidates(result)

\* ----------------------------------------------------------------- C6
\* C6: whenever num_samples >= total (num_samples = total included) the call
\* returns all total pairs in candidate enumeration order: the k-th pair is
\* (positive[k div N], interleaved[k mod N]) for N interleaved negatives.
EnumerationOrder(seq) ==
    /\ Len(seq) = Total
    /\ \A k \in 1..Len(seq) :
          \E s \in NegSlots :
              /\ SlotRank(s) = ((k - 1) % NumNegatives) + 1
              /\ seq[k] = <<PositiveSeq[((k - 1) \div NumNegatives) + 1], SlotText(s)>>

C6_AsStated ==
    (Returned /\ ValidPool /\ num_samples >= Total) => EnumerationOrder(result)

\* ----------------------------------------------------------------- C7
\* C7 as stated: for every successful call and every requested num_samples
\* the returned list is at most num_samples long.
C7_AsStated == Returned => Len(result) <= num_samples

\* C7 amended: for every successful call the returned list is at most
\* max(num_samples, 0) long: at most num_samples for a requested count of
\* zero or more, and empty for a negative one.
C7_LengthBound ==
    Returned => Len(result) <= (IF num_samples < 0 THEN 0 ELSE num_samples)

C7_Witness ==
    /\ Returned /\ ValidPool
    /\ num_samples > Total
    /\ Len(result) < num_samples /\ Len(result) > 0

\* ----------------------------------------------------------------- C8
\* C8: if the positive topic's sequence is empty the call fails with the
\* empty-positive error, whatever num_samples and the other topics are, and
\* returns no pair list.
C8_EmptyPositive ==
    PositiveSeq = <<>> =>
        /\ pc \in {"call", "validate", "raised"}
        /\ Raised => raised = NoPositiveError
        /\ result = <<>>

C8_Witness ==
    /\ PositiveSeq = <<>>
    /\ Raised /\ raised = NoPositiveError
    /\ Contributing # {} /\ num_samples < 0

\* ----------------------------------------------------------------- C9
\* C9: if the positive sequence is non-empty and every other topic is empty
\* (or there is no other topic) the call fails with the no-negatives error
\* for every num_samples; one non-empty other topic is enough for the call
\* not to raise this error.
C9_NoNegatives ==
    /\ (PositiveSeq # <<>> /\ Contributing = {}) =>
          /\ pc \in {"call", "validate", "raised"}
          /\ Raised => raised = NoNegativesError
    /\ Contributing # {} => raised # NoNegativesError

C9_Witness ==
    /\ PositiveSeq # <<>> /\ Contributing = {} /\ OtherTopics # {}
    /\ num_samples < 0
    /\ Raised /\ raised = NoNegativesError

\* ---------------------------------------------------------------- C10
\* C10 as stated: for every num_samples < 0 the call returns the empty list
\* and raises no exception.
C10_AsStated ==
    num_samples < 0 => /\ raised = "none"
                       /\ Returned => result = <<>>

\* C10 amended: for every num_samples < 0 and every pool whose positive
\* sequence is non-empty and that has a non-empty other topic, the call
\* returns the empty list straight from the input checks and raises no
\* exception.
C10_NegativeCount ==
    (num_samples < 0 /\ ValidPool) =>
        /\ raised = "none"
        /\ pc \in {"call", "validate", "returned"}
        /\ Returned => result = <<>>

C10_Witness ==
    /\ num_samples < 0 /\ ValidPool
    /\ Returned /\ result = <<>> /\ raised = "none"

\* ---------------------------------------------------------------- C14
\* C14: if no string occurs twice in the pool (neither inside one topic's
\* sequence nor in two topics' sequences) the returned list holds no two
\* equal (positive_text, negative_text) tuples, whatever num_samples is.
PoolSlots == UNION {{<<i, t>> : i \in 1..Len(all_samples[t])} : t \in 1..Len(all_samples)}
NoStringTwice == \A s, r \in PoolSlots : SlotText(s) = SlotText(r) => s = r

C14_NoDuplicatePairs ==
    (Returned /\ NoStringTwice) =>
        \A i, j \in 1..Len(result) : result[i] = result[j] => i = j

C14_Witness ==
    /\ Returned /\ NoStringTwice
    /\ 2 <= num_samples /\ num_samples < Total
    /\ Len(result) = num_samples
    /\ \A i, j \in 1..Len(result) : result[i] = result[j] => i = j

\* ---------------------------------------------------------------- C15
\* C15: for num_samples < total the result is a selection without
\* replacement from the candidate list: its entries are the candidates at
\* num_samples pairwise distinct positions, and every sequence of
\* num_samples distinct candidate positions is a possible outcome.
CandidateAtPosition(p) ==
    LET s == CHOOSE r \in NegSlots : SlotRank(r) = ((p - 1) % NumNegatives) + 1
    IN  <<PositiveSeq[((p - 1) \div NumNegatives) + 1], SlotText(s)>>

InjectiveSeqs(n, k) ==
    {f \in [1..k -> 1..n] : \A i, j \in 1..k : f[i] = f[j] => i = j}

C15_WithoutReplacement ==
    /\ (Returned /\ ValidPool /\ 0 <= num_samples /\ num_samples < Total) =>
          /\ sample_indices \in InjectiveSeqs(Total, num_samples)
          /\ Len(result) = num_samples
          /\ \A i \in 1..Len(result) :
                result[i] = CandidateAtPosition(sample_indices[i])
    /\ (pc = "select" /\ 0 <= num_samples /\ num_samples < Total) =>
          \A d \in InjectiveSeqs(Total, num_samples) :
              ENABLED (Subsample /\ sample_indices' = d)

C15_Witness ==
    /\ Returned /\ ValidPool
    /\ num_samples = 3 /\ Total = 6
    /\ sample_indices = <<6, 1, 4>>
    /\ result = <<CandidateAtPosition(6), CandidateAtPosition(1), CandidateAtPosition(4)>>

\* ---------------------------------------------------------------- C16
\* C16: in every prefix of the interleaved negative sequence no contributing
\* topic dominates: topic X has more than one element more than topic Y in
\* the prefix only if all of Y's elements are in the prefix; a prefix of
\* length m holds at most ceil(m / k) elements of any one topic while k
\* topics are still unexhausted.
\* Where each interleaved element comes from: the code's interleaving run on
\* the negative lists with every element replaced by <<list, index>>.
TaggedNegativeLists ==
    [j \in 1..Len(negative_lists) |-> [i \in 1..Len(negative_lists[j]) |-> <<j, i>>]]
InterleavedOrigins == Interleave(TaggedNegativeLists)
InPrefix(origins, m, j) == Cardinality({q \in 1..m : origins[q][1] = j})
Unexhausted(origins, m) ==
    {j \in 1..Len(negative_lists) : InPrefix(origins, m, j) < Len(negative_lists[j])}
CeilDiv(a, b) == (a + b - 1) \div b

C16_NoTopicDominates ==
    InterleavedBuilt =>
        LET origins == InterleavedOrigins
        IN  /\ Len(origins) = Len(interleaved_negatives)
            /\ \A q \in 1..Len(interleaved_negatives) :
                  interleaved_negatives[q] = negative_lists[origins[q][1]][origins[q][2]]
            /\ \A m \in 0..Len(interleaved_negatives) :
                  LET open == Unexhausted(origins, m)
                  IN  /\ \A x, y \in 1..Len(negative_lists) :
                            InPrefix(origins, m, x) > InPrefix(origins, m, y) + 1
                                => y \notin open
                      /\ open # {} =>
                            \A x \in 1..Len(negative_lists) :
                                InPrefix(origins, m, x) <= CeilDiv(m, Cardinality(open))

C16_Witness ==
    /\ pc = "pairs"
    /\ all_samples = InterleaveExamplePool
    /\ LET origins == InterleavedOrigins
       IN  /\ InPrefix(origins, 4, 1) = 2
           /\ InPrefix(origins, 4, 2) = 1
           /\ InPrefix(origins, 4, 3) = 1
           /\ Unexhausted(origins, 4) = {1, 3}
           /\ InPrefix(origins, 6, 1) = InPrefix(origins, 6, 2) + 2

\* ---------------------------------------------------------------- C17
\* C17: the input checks run in a fixed order: empty positive sequence,
\* then no non-empty negatives, then negative num_samples.  An empty
\* positive sequence raises the empty-positive error even when there are no
\* negatives either; num_samples < 0 returns the empty list only when the
\* positive sequence and some other topic are non-empty, otherwise the
\* corresponding error is raised.
C17_CheckOrder ==
    /\ PositiveSeq = <<>> => (~Returned /\ raised # NoNegativesError)
    /\ Raised => raised = (IF PositiveSeq = <<>> THEN NoPositiveError ELSE NoNegativesError)
    /\ (Raised /\ PositiveSeq # <<>>) => Contributing = {}
    /\ (num_samples < 0 /\ Returned) => (ValidPool /\ result = <<>>)
    /\ (num_samples < 0 /\ ~ValidPool) => ~Returned

C17_Witness ==
    /\ PositiveSeq = <<>> /\ Contributing = {} /\ OtherTopics # {}
    /\ num_samples < 0
    /\ Raised /\ raised = NoPositiveError

\* ---------------------------------------------------------------- C11
\* C11: an unrecognized representation kind or pairing kind makes
\* create_topic_vector_training_samples fail with a validation error before
\* the loader is invoked; neither the loader nor the persister is called.
UnrecognizedArgument ==
    \/ topic_representation_type \notin RecognizedRepresentationTypes
    \/ pairing_type \notin RecognizedPairingTypes

C11_ValidationFirst ==
    UnrecognizedArgument =>
        /\ loader_calls = 0
        /\ persister_calls = <<>>
        /\ returned_samples = <<>>
        /\ pc = "call"
        /\ opc \in {"start", "type_ok", "failed"}
        /\ opc = "failed" => call_error = ValidationError

C11_Witness ==
    /\ topic_representation_type \in RecognizedRepresentationTypes
    /\ pairing_type \notin RecognizedPairingTypes
    /\ opc = "failed" /\ call_error = ValidationError
    /\ loader_calls = 0 /\ persister_calls = <<>>

\* ---------------------------------------------------------------- C12
\* C12: create_training_pairs never mutates its inputs: in every step of a
\* call, returning or raising, the pool and each topic's sequence stay as
\* they were, and the positive sequence passed separately stays equal to the
\* positive topic's sequence in the pool.
C12_InputsUntouched ==
    [][/\ all_samples' = all_samples
       /\ tid_positive' = tid_positive
       /\ num_samples' = num_samples
       /\ pc' # "call" => positive_samples' = all_samples[tid_positive]]_vars

C12_Witness ==
    /\ Returned /\ Len(result) >= 2
    /\ all_samples = EndToEndPool
    /\ positive_samples = <<"p1", "p2">>
    /\ negative_lists = << <<"n1">>, <<"n2", "n3">> >>

\* ---------------------------------------------------------------- C13
\* C13: the persister is invoked exactly once, with exactly the pair list
\* that is then returned, on every call in which pair construction returns
\* (the empty result of a negative count and the return-everything case
\* included), and never when validation, loading or pair construction
\* fails; a hard error and a persister failure both leave the function
\* with no pair list returned.
SaveArguments ==
    [pairs |-> result, kind |-> topic_representation_type,
     pairing |-> pairing_type, tid |-> tid_positive]

C13_PersistOnce ==
    /\ Len(persister_calls) <= 1
    /\ ~Returned => persister_calls = <<>>
    /\ (Returned /\ opc \in {"done", "failed"}) => persister_calls = <<SaveArguments>>
    /\ opc = "done" => /\ Returned
                       /\ returned_samples = <<result>>
                       /\ call_error = "none"
    /\ opc = "failed" => /\ returned_samples = <<>>
                         /\ call_error # "none"
                         /\ Raised => call_error = raised
                         /\ Returned => call_error = PersistError
    /\ returned_samples # <<>> => opc = "done"

C13_Witness ==
    /\ opc = "done" /\ Returned
    /\ num_samples < 0
    /\ persister_calls = <<SaveArguments>>
    /\ returned_samples = <<<<>>>>

\* ---------------------------------------------------------------- C18
\* C18: create_all_topic_vector_training_samples calls
\* create_topic_vector_training_samples sequentially, once for every
\* (representation kind, topic id) combination of the configuration, kinds
\* in configured order and topic ids in configured order within a kind, each
\* time with the kind's configured sample count and the pairing kind
\* "against_random_topic_representation"; the first call that raises aborts
\* the loop, no later combination is called, and what was persisted for the
\* earlier combinations stays in place.
ConfiguredKinds == config.TOPIC_REPRESENTATION_TYPES
ConfiguredTids == config.TOPIC_IDS
Schedule ==
    [n \in 1..(Len(ConfiguredKinds) * Len(ConfiguredTids)) |->
        LET kind == ConfiguredKinds[((n - 1) \div Len(ConfiguredTids)) + 1]
        IN  [kind |-> kind,
             num_samples |-> config.TOPIC_REPRESENTATION_TYPE_NUM_SAMPLES[kind],
             tid |-> ConfiguredTids[((n - 1) % Len(ConfiguredTids)) + 1],
             pairing |-> "against_random_topic_representation"]]
IsPrefix(a, b) == Len(a) <= Len(b) /\ \A i \in 1..Len(a) : a[i] = b[i]

C18_LoopState ==
    /\ IsPrefix(invocations, Schedule)
    /\ lpc = "finished" => /\ invocations = Schedule
                           /\ abort_error = "none"
    /\ lpc = "aborted" => /\ abort_error # "none"
                          /\ invocations # <<>>
                          /\ Len(stored) = Len(invocations) - 1
    /\ lpc # "aborted" => /\ abort_error = "none"
                          /\ Len(stored) = Len(invocations)
    /\ \A i \in 1..Len(stored) :
          /\ stored[i].kind = Schedule[i].kind
          /\ stored[i].tid = Schedule[i].tid
          /\ stored[i].pairing = Schedule[i].pairing

C18_LoopStep ==
    /\ lpc # "aborted"
    /\ lpc # "finished"
    /\ IsPrefix(stored, stored')
    /\ IsPrefix(invocations, invocations')
    /\ Len(invocations') <= Len(invocations) + 1

C18_SequentialUntilFirstError == []C18_LoopState /\ [][C18_LoopStep]_vars

C18_Witness ==
    /\ lpc = "aborted"
    /\ Len(Schedule) = 4
    /\ Len(invocations) = 3
    /\ Len(stored) = 2
    /\ abort_error = NoNegativesError
====
